---- MODULE Spec2Model ----
(***************************************************************************)
(* A model of pytraccar's TraccarAPI client (src/pytraccar/api.py).        *)
(*                                                                         *)
(* Python values are written as the strings python's repr() prints for     *)
(* them: None is "None", the integer 0 is "0", the empty str is "''" and   *)
(* the str X is "'X'", so that 1 and '1', or None and '', stay different.  *)
(* A dict is a function from its keys to such values, a list a sequence.   *)
(* One call of a method is one action; it leaves the requests it sent, the *)
(* responses it got and its outcome in call/sent/recv/result until the     *)
(* caller takes the outcome (Return).                                      *)
(***************************************************************************)
EXTENDS Integers, Sequences, FiniteSets, TLC

VARIABLES token, log, pc, call, sent, recv, result

vars == <<token, log, pc, call, sent, recv, result>>

(* ---------------- bounds ---------------- *)

\* login_with_token calls kept in the history
MaxLogins == 2

(* ---------------- python values ---------------- *)

PyNone == "None"
EmptyStr == "''"

\* str literals in use, with their text
StrText ==
    ("''" :> "") @@ ("'id'" :> "id") @@ ("'userId'" :> "userId") @@
    ("'X'" :> "X") @@ ("'555'" :> "555") @@ ("'777'" :> "777") @@
    ("'u2'" :> "u2") @@ ("'Car'" :> "Car") @@ ("'m9'" :> "m9") @@
    ("'t1'" :> "t1") @@ ("'t2'" :> "t2") @@ ("'POLYGON'" :> "POLYGON") @@
    ("'CIRCLE'" :> "CIRCLE") @@ ("'desc'" :> "desc") @@ ("'alarm'" :> "alarm") @@
    ("'5'" :> "5") @@ ("'None'" :> "None")

\* str(v): the text of a python value
PyStr(v) == IF v \in DOMAIN StrText THEN StrText[v] ELSE v

\* the str object with text s
Quote(s) == "'" \o s \o "'"

\* python truth value testing, as `not v` uses it
Falsy(v) == v \in {PyNone, "0", EmptyStr, "False"}

\* dict.get(key): None when the key is absent
DictGet(d, key) == IF key \in DOMAIN d THEN d[key] ELSE PyNone

EmptyDict == [k \in {} |-> PyNone]

\* json.dumps(v): the JSON text that encodes v
JsonDumps(v) == [json_text |-> v]

\* Response.json(): the value a JSON text encodes
JsonLoads(t) == t.json_text

(* ---------------- the client ---------------- *)

BaseUrl == "http://srv"

\* TraccarAPI.__init__: the endpoint table
urls ==
    [devices        |-> BaseUrl \o "/api/devices",
     session        |-> BaseUrl \o "/api/session",
     geofences      |-> BaseUrl \o "/api/geofences",
     notifications  |-> BaseUrl \o "/api/notifications",
     reports_events |-> BaseUrl \o "/api/reports/events",
     reports_route  |-> BaseUrl \o "/api/reports/route",
     reports_trips  |-> BaseUrl \o "/api/reports/trips",
     positions      |-> BaseUrl \o "/api/positions",
     users          |-> BaseUrl \o "/api/users",
     groups         |-> BaseUrl \o "/api/groups",
     permissions    |-> BaseUrl \o "/api/permissions"]

\* '{}/{}'.format(url, id)
ItemUrl(url, id) == url \o "/" \o PyStr(id)

(* ---------------- the server, as the client sees it ---------------- *)

Statuses == {200, 204, 400, 401, 404, 500}

\* JSON objects and arrays a response body may hold
Objects == {[id |-> "1"], [id |-> "2", name |-> "'X'"]}
Lists == {<<>>, <<[id |-> "1"]>>}

Responses(docs) ==
    {[status_code |-> s, text |-> JsonDumps(d)] : s \in Statuses, d \in docs}

(* ---------------- outcomes of a call ---------------- *)

Returns(v) == [kind |-> "return", value |-> v]
Raises(exc, kwargs) == [kind |-> "raise", exc |-> exc, kwargs |-> kwargs]

NoCall == [op |-> "none"]
NoResult == [kind |-> "none"]

Init ==
    /\ token = EmptyStr
    /\ log = <<>>
    /\ pc = "idle"
    /\ call = NoCall
    /\ sent = <<>>
    /\ recv = <<>>
    /\ result = NoResult

\* a method call runs to its end: what it was, sent, received and gave back
Finish(op, args, reqs, resps, res) ==
    /\ pc = "idle"
    /\ pc' = "done"
    /\ call' = [op |-> op, args |-> args]
    /\ sent' = reqs
    /\ recv' = resps
    /\ result' = res

\* the caller takes the outcome; the method's locals are gone
Return ==
    /\ pc = "done"
    /\ pc' = "idle"
    /\ call' = NoCall
    /\ sent' = <<>>
    /\ recv' = <<>>
    /\ result' = NoResult
    /\ UNCHANGED <<token, log>>

(* ---------------- /api/session ---------------- *)

Usernames == {"'X'"}
Passwords == {"'555'"}
Tokens == {"'t1'", "'t2'"}

login_with_credentials_request(username, password) ==
    [method |-> "POST", url |-> urls.session,
     data |-> [email |-> username, password |-> password]]

login_with_credentials_result(req) ==
    IF req.status_code = 200 THEN Returns(JsonLoads(req.text))
    ELSE IF req.status_code = 401 THEN Raises("ForbiddenAccessException", EmptyDict)
    ELSE Raises("TraccarApiException", [info |-> req.text])

login_with_credentials ==
    /\ pc = "idle"
    /\ \E username \in Usernames, password \in Passwords, req \in Responses(Objects) :
        /\ Finish("login_with_credentials",
                  [username |-> username, password |-> password],
                  <<login_with_credentials_request(username, password)>>,
                  <<req>>,
                  login_with_credentials_result(req))
        /\ UNCHANGED <<token, log>>

login_with_token_request(tok) ==
    [method |-> "GET", url |-> urls.session, params |-> [token |-> tok]]

login_with_token_result(req) ==
    IF req.status_code = 200 THEN Returns(JsonLoads(req.text))
    ELSE IF req.status_code = 404 THEN Raises("InvalidTokenException", EmptyDict)
    ELSE Raises("TraccarApiException", [info |-> req.text])

\* the token saved before the status is looked at
login_with_token_token_eager(tok, req, old) == tok

\* self._token after login_with_token(tok) got req
login_with_token_token(tok, req, old) ==
    IF req.status_code = 200 THEN tok ELSE old

login_with_token ==
    /\ pc = "idle"
    /\ \E tok \in Tokens, req \in Responses(Objects) :
        /\ Len(log) < MaxLogins
        /\ Finish("login_with_token", [token |-> tok],
                  <<login_with_token_request(tok)>>, <<req>>,
                  login_with_token_result(req))
        /\ token' = login_with_token_token(tok, req, token)
        /\ log' = Append(log, [token |-> tok, answered200 |-> req.status_code = 200])

(* ---------------- list fetches guarded by a permission ---------------- *)

\* any 2xx status taken for success
get_all_result_lax(req) ==
    IF req.status_code \in {200, 204} THEN Returns(JsonLoads(req.text))
    ELSE IF req.status_code = 400 THEN Raises("UserPermissionException", EmptyDict)
    ELSE Raises("TraccarApiException", [info |-> req.text])

\* the status chain of get_all_devices, repeated verbatim in get_all_geofences,
\* get_all_notifications, get_all_users, get_events, get_positions, get_trips,
\* get_groups and get_route
get_all_result(req) ==
    IF req.status_code = 200 THEN Returns(JsonLoads(req.text))
    ELSE IF req.status_code = 400 THEN Raises("UserPermissionException", EmptyDict)
    ELSE Raises("TraccarApiException", [info |-> req.text])

get_all_request(path) ==
    [method |-> "GET", url |-> path, params |-> [all |-> "True"]]

get_all_devices ==
    /\ pc = "idle"
    /\ \E req \in Responses(Lists) :
        /\ Finish("get_all_devices", EmptyDict,
                  <<get_all_request(urls.devices)>>, <<req>>, get_all_result(req))
        /\ UNCHANGED <<token, log>>

get_all_geofences ==
    /\ pc = "idle"
    /\ \E req \in Responses(Lists) :
        /\ Finish("get_all_geofences", EmptyDict,
                  <<get_all_request(urls.geofences)>>, <<req>>, get_all_result(req))
        /\ UNCHANGED <<token, log>>

get_all_notifications ==
    /\ pc = "idle"
    /\ \E req \in Responses(Lists) :
        /\ Finish("get_all_notifications", EmptyDict,
                  <<get_all_request(urls.notifications)>>, <<req>>, get_all_result(req))
        /\ UNCHANGED <<token, log>>

get_all_users ==
    /\ pc = "idle"
    /\ \E req \in Responses(Lists) :
        /\ Finish("get_all_users", EmptyDict,
                  <<get_all_request(urls.users)>>, <<req>>, get_all_result(req))
        /\ UNCHANGED <<token, log>>

(* ---------------- filtered lookups ---------------- *)

Queries == {PyNone, "''", "'id'", "'userId'"}
Ids == {PyNone, "5"}

\* the filter dict passed whether or not a key was given
get_filtered_request_always(path, query, params) ==
    [method |-> "GET", url |-> path, params |-> [k \in {PyStr(query)} |-> params]]

\* get_devices / get_geofences: the request for (query, params)
get_filtered_request(path, query, params) ==
    IF Falsy(query)
    THEN [method |-> "GET", url |-> path]
    ELSE [method |-> "GET", url |-> path,
          params |-> [k \in {PyStr(query)} |-> params]]

get_filtered_result(obj_type, params, req) ==
    IF req.status_code = 200 THEN Returns(JsonLoads(req.text))
    ELSE IF req.status_code = 400
    THEN Raises("ObjectNotFoundException", [obj |-> params, obj_type |-> obj_type])
    ELSE Raises("TraccarApiException", [info |-> req.text])

get_devices ==
    /\ pc = "idle"
    /\ \E query \in Queries, params \in Ids, req \in Responses(Lists) :
        /\ Finish("get_devices", [query |-> query, params |-> params],
                  <<get_filtered_request(urls.devices, query, params)>>, <<req>>,
                  get_filtered_result("'Device'", params, req))
        /\ UNCHANGED <<token, log>>

get_geofences ==
    /\ pc = "idle"
    /\ \E query \in Queries, params \in Ids, req \in Responses(Lists) :
        /\ Finish("get_geofences", [query |-> query, params |-> params],
                  <<get_filtered_request(urls.geofences, query, params)>>, <<req>>,
                  get_filtered_result("'Geofence'", params, req))
        /\ UNCHANGED <<token, log>>

(* ---------------- delete ---------------- *)

delete_request(path, id) == [method |-> "DELETE", url |-> ItemUrl(path, id)]

\* 200 taken for a successful delete as well
delete_result_lax(req) ==
    IF req.status_code \notin {200, 204}
    THEN Raises("TraccarApiException", [info |-> req.text])
    ELSE Returns(PyNone)

delete_result(req) ==
    IF req.status_code # 204
    THEN Raises("TraccarApiException", [info |-> req.text])
    ELSE Returns(PyNone)

delete_device ==
    /\ pc = "idle"
    /\ \E device_id \in {"5"}, req \in Responses(Lists) :
        /\ Finish("delete_device", [device_id |-> device_id],
                  <<delete_request(urls.devices, device_id)>>, <<req>>,
                  delete_result(req))
        /\ UNCHANGED <<token, log>>

delete_geofence ==
    /\ pc = "idle"
    /\ \E geofence_id \in {"5"}, req \in Responses(Lists) :
        /\ Finish("delete_geofence", [geofence_id |-> geofence_id],
                  <<delete_request(urls.geofences, geofence_id)>>, <<req>>,
                  delete_result(req))
        /\ UNCHANGED <<token, log>>

(* ---------------- /api/permissions ---------------- *)

\* both ids put in the payload when both are given
set_permissions_data_both(userId, deviceId, groupId) ==
    IF deviceId # "0" /\ groupId # "0"
    THEN [bound |-> TRUE,
          dict |-> [userId |-> userId, deviceId |-> deviceId, groupId |-> groupId]]
    ELSE IF deviceId # "0"
    THEN [bound |-> TRUE, dict |-> [userId |-> userId, deviceId |-> deviceId]]
    ELSE IF groupId # "0"
    THEN [bound |-> TRUE, dict |-> [userId |-> userId, groupId |-> groupId]]
    ELSE [bound |-> FALSE]

\* the local `data` of set_permissions; "unbound" when no branch assigns it
set_permissions_data(userId, deviceId, groupId) ==
    IF deviceId # "0"
    THEN [bound |-> TRUE, dict |-> [userId |-> userId, deviceId |-> deviceId]]
    ELSE IF groupId # "0"
    THEN [bound |-> TRUE, dict |-> [userId |-> userId, groupId |-> groupId]]
    ELSE [bound |-> FALSE]

set_permissions_result(data, req) ==
    IF req.status_code = 204 THEN Returns(data)
    ELSE IF req.status_code = 400 THEN Raises("BadRequestException", [message |-> req.text])
    ELSE Raises("TraccarApiException", [info |-> req.text])

set_permissions ==
    /\ pc = "idle"
    /\ \E userId \in {"1"}, deviceId \in {"0", "2"}, groupId \in {"0", "3"},
       req \in Responses(Objects) :
        LET data == set_permissions_data(userId, deviceId, groupId)
            args == [userId |-> userId, deviceId |-> deviceId, groupId |-> groupId]
        IN  /\ IF data.bound
               THEN Finish("set_permissions", args,
                           <<[method |-> "POST", url |-> urls.permissions,
                              json |-> data.dict]>>,
                           <<req>>, set_permissions_result(data.dict, req))
               \* reading the unbound local raises before the request is made
               ELSE Finish("set_permissions", args, <<>>, <<>>,
                           Raises("UnboundLocalError", EmptyDict))
            /\ UNCHANGED <<token, log>>

(* ---------------- create ---------------- *)

\* id auto-assignment
AutoId == -1

create_result(req) ==
    IF req.status_code = 200 THEN Returns(JsonLoads(req.text))
    ELSE IF req.status_code = 400 THEN Raises("BadRequestException", [message |-> req.text])
    ELSE Raises("TraccarApiException", [info |-> req.text])

\* what a caller may pass; the defaults of the signature are among the values
CreateDeviceArgs ==
    [name : {"'X'"}, unique_id : {"'u2'"}, group_id : {"0", "3"},
     phone : {"''", "'555'"}, model : {"''"}, contact : {"''"},
     category : {PyNone, "'Car'"}]

create_device_data(a) ==
    [id |-> ToString(AutoId), name |-> a.name, uniqueId |-> a.unique_id,
     phone |-> a.phone, model |-> a.model, contact |-> a.contact,
     category |-> a.category, groupId |-> a.group_id]

create_device ==
    /\ pc = "idle"
    /\ \E a \in CreateDeviceArgs, req \in Responses(Objects) :
        /\ Finish("create_device", a,
                  <<[method |-> "POST", url |-> urls.devices,
                     json |-> create_device_data(a)]>>,
                  <<req>>, create_result(req))
        /\ UNCHANGED <<token, log>>

CreateGeofenceArgs ==
    [name : {"'X'"}, area : {"'POLYGON'", "5"}, description : {"''", "'desc'"},
     calendarId : {PyNone, "3"}, attributes : {PyNone, "{}"}]

create_geofence_data(a) ==
    [id |-> ToString(AutoId), name |-> a.name, description |-> a.description,
     area |-> Quote(PyStr(a.area))]

create_geofence ==
    /\ pc = "idle"
    /\ \E a \in CreateGeofenceArgs, req \in Responses(Objects) :
        /\ Finish("create_geofence", a,
                  <<[method |-> "POST", url |-> urls.geofences,
                     json |-> create_geofence_data(a)]>>,
                  <<req>>, create_result(req))
        /\ UNCHANGED <<token, log>>

CreateUserArgs ==
    [name : {"'X'"}, email : {"'u2'"}, administrator : {"False", "True"},
     token : {PyNone, "'t1'"}]

create_user_data(a) ==
    [id |-> ToString(AutoId), name |-> a.name, email |-> a.email,
     administrator |-> a.administrator, token |-> a.token,
     attributes |-> "{'speedUnit': 'kmh'}"]

create_user ==
    /\ pc = "idle"
    /\ \E a \in CreateUserArgs, req \in Responses(Objects) :
        /\ Finish("create_user", a,
                  <<[method |-> "POST", url |-> urls.users,
                     json |-> create_user_data(a)]>>,
                  <<req>>, create_result(req))
        /\ UNCHANGED <<token, log>>

(* ---------------- update ---------------- *)

\* records the server may hold: a full one and one that lacks some fields
Device1 ==
    [id |-> "5", name |-> "'Old'", uniqueId |-> "'u1'", phone |-> "'555'",
     model |-> "''", contact |-> PyNone, category |-> PyNone, groupId |-> "2",
     status |-> "'online'"]
Device2 == [id |-> "5", name |-> "''", phone |-> "'555'", disabled |-> "False"]
DeviceLists == {<<>>, <<Device1>>, <<Device2, Device1>>}

Geofence1 ==
    [id |-> "5", name |-> "'Old'", area |-> "'CIRCLE'", description |-> "''",
     calendarId |-> "0", attributes |-> "{}"]
Geofence2 == [id |-> "5", name |-> "'Old'", description |-> PyNone]
GeofenceLists == {<<>>, <<Geofence1>>, <<Geofence2, Geofence1>>}

UpdateDeviceArgs ==
    [device_id : {"5"}, name : {PyNone, "''", "'X'"}, unique_id : {PyNone},
     group_id : {PyNone, "0", "3"}, phone : {PyNone, "'777'"}, model : {PyNone},
     contact : {PyNone}, category : {PyNone, "'Car'"}]

UpdateGeofenceArgs ==
    [geofence_id : {"5"}, name : {PyNone, "''", "'X'"}, area : {PyNone, "'POLYGON'"},
     description : {PyNone}, calendarId : {PyNone, "0"},
     attributes : {PyNone}]

\* the local `update` of update_device
update_device_update(a) ==
    [name |-> a.name, uniqueId |-> a.unique_id, phone |-> a.phone,
     model |-> a.model, contact |-> a.contact, category |-> a.category,
     groupId |-> a.group_id]

\* the local `update` of update_geofence
update_geofence_update(a) ==
    [name |-> a.name, area |-> a.area, description |-> a.description,
     calendarId |-> a.calendarId, attributes |-> a.attributes]

\* the overlay decided by truth value instead of `is None`
update_data_truthy(info, update) ==
    [key \in DOMAIN info |->
        IF Falsy(DictGet(update, key)) THEN info[key] ELSE update[key]]

\* {key: value if update.get(key) is None else update[key] for key, value in info.items()}
update_data(info, update) ==
    [key \in DOMAIN info |->
        IF DictGet(update, key) = PyNone THEN info[key] ELSE update[key]]

update_request(path, id, data) ==
    [method |-> "PUT", url |-> ItemUrl(path, id), data |-> JsonDumps(data),
     headers |-> ("Content-Type" :> "application/json")]

update_result(req) ==
    IF req.status_code = 200 THEN Returns(JsonLoads(req.text))
    ELSE IF req.status_code = 400 THEN Raises("BadRequestException", [message |-> req.text])
    ELSE Raises("TraccarApiException", [info |-> req.text])

\* an empty lookup taken for an empty record
update_lookup_lenient(obj_type, id, req) ==
    LET found == get_filtered_result(obj_type, id, req)
    IN  IF found.kind = "raise" THEN found
        ELSE IF Len(found.value) = 0 THEN Returns(EmptyDict)
        ELSE Returns(found.value[1])

\* the first half of update_device / update_geofence: the lookup and req[0]
update_lookup(obj_type, id, req) ==
    LET found == get_filtered_result(obj_type, id, req)
    IN  IF found.kind = "raise" THEN found
        \* req[0] on an empty list
        ELSE IF Len(found.value) = 0 THEN Raises("IndexError", EmptyDict)
        ELSE Returns(found.value[1])

update_device ==
    /\ pc = "idle"
    /\ \E a \in UpdateDeviceArgs, req1 \in Responses(DeviceLists) :
        LET get == get_filtered_request(urls.devices, "'id'", a.device_id)
            device_info == update_lookup("'Device'", a.device_id, req1)
        IN  /\ IF device_info.kind = "raise"
               THEN Finish("update_device", a, <<get>>, <<req1>>, device_info)
               ELSE \E req2 \in Responses(Objects) :
                        Finish("update_device", a,
                               <<get, update_request(urls.devices, a.device_id,
                                        update_data(device_info.value,
                                                    update_device_update(a)))>>,
                               <<req1, req2>>, update_result(req2))
            /\ UNCHANGED <<token, log>>

update_geofence ==
    /\ pc = "idle"
    /\ \E a \in UpdateGeofenceArgs, req1 \in Responses(GeofenceLists) :
        LET get == get_filtered_request(urls.geofences, "'id'", a.geofence_id)
            geofence_info == update_lookup("'Geofence'", a.geofence_id, req1)
        IN  /\ IF geofence_info.kind = "raise"
               THEN Finish("update_geofence", a, <<get>>, <<req1>>, geofence_info)
               ELSE \E req2 \in Responses(Objects) :
                        Finish("update_geofence", a,
                               <<get, update_request(urls.geofences, a.geofence_id,
                                        update_data(geofence_info.value,
                                                    update_geofence_update(a)))>>,
                               <<req1, req2>>, update_result(req2))
            /\ UNCHANGED <<token, log>>

(* ---------------- reports, positions, groups ---------------- *)

StartTimes == {"'T0'", "'T1'"}
EndTimes == {"'T2'"}

GetEventsArgs ==
    [startTime : StartTimes, endTime : EndTimes,
     event_type : {PyNone, "''", "'alarm'"}, deviceid : {PyNone, "7"},
     groupId : {PyNone, "0", "2"}]

\* the group default as the number 1 instead of the str '1'
get_events_data_intdefault(a) ==
    [from |-> a.startTime, to |-> a.endTime,
     groupId |-> IF Falsy(a.groupId) THEN "1" ELSE a.groupId,
     type |-> IF Falsy(a.event_type) THEN "'%'" ELSE a.event_type]

get_events_data(a) ==
    [from |-> a.startTime, to |-> a.endTime,
     groupId |-> IF Falsy(a.groupId) THEN "'1'" ELSE a.groupId,
     type |-> IF Falsy(a.event_type) THEN "'%'" ELSE a.event_type]

get_events ==
    /\ pc = "idle"
    /\ \E a \in GetEventsArgs, req \in Responses(Lists) :
        /\ Finish("get_events", a,
                  <<[method |-> "GET", url |-> urls.reports_events,
                     params |-> get_events_data(a)]>>,
                  <<req>>, get_all_result(req))
        /\ UNCHANGED <<token, log>>

GetPositionsArgs ==
    [deviceId : {PyNone, "7"}, startTime : {PyNone, "'T0'"}, endTime : {PyNone},
     position_id : {PyNone, "9"}]

get_positions_data(a) ==
    [deviceId |-> a.deviceId, from |-> a.startTime, to |-> a.endTime,
     id |-> a.position_id]

get_positions ==
    /\ pc = "idle"
    /\ \E a \in GetPositionsArgs, req \in Responses(Lists) :
        /\ Finish("get_positions", a,
                  <<[method |-> "GET", url |-> urls.positions,
                     params |-> get_positions_data(a)]>>,
                  <<req>>, get_all_result(req))
        /\ UNCHANGED <<token, log>>

JsonHeaders ==
    ("Accept" :> "application/json") @@ ("Content-Type" :> "application/json")

GetTripsArgs ==
    [startTime : StartTimes, endTime : EndTimes, deviceid : {PyNone, "7"},
     groupId : {PyNone, "0", "2"}]

get_trips_data(a) ==
    [from |-> a.startTime, to |-> a.endTime,
     groupId |-> IF Falsy(a.groupId) THEN "'1'" ELSE a.groupId]

get_trips ==
    /\ pc = "idle"
    /\ \E a \in GetTripsArgs, req \in Responses(Lists) :
        /\ Finish("get_trips", a,
                  <<[method |-> "GET", url |-> urls.reports_trips,
                     params |-> get_trips_data(a), headers |-> JsonHeaders]>>,
                  <<req>>, get_all_result(req))
        /\ UNCHANGED <<token, log>>

get_groups ==
    /\ pc = "idle"
    /\ \E userId \in {PyNone, "1"}, req \in Responses(Lists) :
        /\ Finish("get_groups", [userId |-> userId],
                  <<[method |-> "GET", url |-> urls.groups,
                     params |-> [userId |-> userId]]>>,
                  <<req>>, get_all_result(req))
        /\ UNCHANGED <<token, log>>

GetRouteArgs == [deviceid : {"7"}, startTime : StartTimes, endTime : EndTimes]

get_route_data(a) ==
    [deviceId |-> a.deviceid, from |-> a.startTime, to |-> a.endTime]

get_route ==
    /\ pc = "idle"
    /\ \E a \in GetRouteArgs, req \in Responses(Lists) :
        /\ Finish("get_route", a,
                  <<[method |-> "GET", url |-> urls.reports_route,
                     params |-> get_route_data(a), headers |-> JsonHeaders]>>,
                  <<req>>, get_all_result(req))
        /\ UNCHANGED <<token, log>>

Next ==
    \/ login_with_credentials
    \/ login_with_token
    \/ get_all_devices
    \/ get_devices
    \/ create_device
    \/ update_device
    \/ delete_device
    \/ get_all_geofences
    \/ get_geofences
    \/ create_geofence
    \/ update_geofence
    \/ delete_geofence
    \/ get_all_notifications
    \/ get_events
    \/ get_positions
    \/ get_trips
    \/ get_all_users
    \/ create_user
    \/ set_permissions
    \/ get_groups
    \/ get_route
    \/ Return

Spec == Init /\ [][Next]_vars

(* ======================= properties ======================= *)

Done(op) == pc = "done" /\ call.op = op

UpdateOps == {"update_device", "update_geofence"}
DeleteOps == {"delete_device", "delete_geofence"}
CreateOps == {"create_device", "create_geofence", "create_user"}
LookupOps == {"get_devices", "get_geofences"}
ListFetchOps ==
    {"get_all_devices", "get_all_geofences", "get_all_notifications",
     "get_all_users", "get_events", "get_positions", "get_trips", "get_route",
     "get_groups"}

(* ---------------- C1 ---------------- *)

\* the token the history of login_with_token calls calls for: the argument of
\* the latest call answered 200, the empty string when there is none
RECURSIVE LastAccepted(_)
LastAccepted(l) ==
    IF l = <<>> THEN EmptyStr
    ELSE IF l[Len(l)].answered200 THEN l[Len(l)].token
    ELSE LastAccepted(SubSeq(l, 1, Len(l) - 1))

\* C1: after any sequence of calls the cached token is the empty string when
\* no login_with_token has been answered 200, and otherwise the argument of the
\* latest login_with_token answered 200; no other call and no other answer
\* changes it.
C1_TokenIsLastAccepted == token = LastAccepted(log)

\* a token login is refused after another token was accepted: the first stays
C1_Witness ==
    /\ Done("login_with_token")
    /\ Len(log) = 2
    /\ log[1].answered200 /\ ~log[2].answered200
    /\ log[1].token # log[2].token
    /\ recv[1].status_code = 404
    /\ token = log[1].token

(* ---------------- C2 ---------------- *)

\* the value the caller gave for the field of the record named key
CallerValue(c, key) ==
    IF c.op = "update_device"
    THEN CASE key = "name"     -> c.args.name
           [] key = "uniqueId" -> c.args.unique_id
           [] key = "phone"    -> c.args.phone
           [] key = "model"    -> c.args.model
           [] key = "contact"  -> c.args.contact
           [] key = "category" -> c.args.category
           [] key = "groupId"  -> c.args.group_id
           [] OTHER            -> PyNone
    ELSE CASE key = "name"        -> c.args.name
           [] key = "area"        -> c.args.area
           [] key = "description" -> c.args.description
           [] key = "calendarId"  -> c.args.calendarId
           [] key = "attributes"  -> c.args.attributes
           [] OTHER               -> PyNone

\* the record the lookup of an update found, and the record its PUT carries
CurrentRecord == JsonLoads(recv[1].text)[1]
SubmittedRecord == JsonLoads(sent[2].data)

\* C2: the record an update PUTs has exactly the keys of the server's current
\* record; a key holds the caller's value when the caller gave a non-null one
\* (falsy ones such as 0 and '' included) and the server's value otherwise.
C2_UpdateMergesOntoCurrent ==
    (pc = "done" /\ call.op \in UpdateOps /\ Len(sent) = 2) =>
        /\ DOMAIN SubmittedRecord = DOMAIN CurrentRecord
        /\ \A key \in DOMAIN CurrentRecord :
              SubmittedRecord[key] =
                  IF CallerValue(call, key) # PyNone
                  THEN CallerValue(call, key)
                  ELSE CurrentRecord[key]

\* an empty name and group 0 given, phone not given, on a record with phone '555'
C2_Witness ==
    /\ Done("update_device") /\ Len(sent) = 2
    /\ call.args.name = EmptyStr /\ call.args.group_id = "0"
    /\ call.args.phone = PyNone
    /\ CurrentRecord.phone = "'555'" /\ CurrentRecord.name = "'Old'"
    /\ CurrentRecord.groupId = "2"
    /\ SubmittedRecord.name = EmptyStr /\ SubmittedRecord.phone = "'555'"
    /\ SubmittedRecord.groupId = "0" /\ SubmittedRecord.status = "'online'"

(* ---------------- C3 ---------------- *)

\* the request a response answers is the lookup of an update, not its PUT
LookupStage == call.op \in UpdateOps /\ Len(recv) = 1

LastResponse == recv[Len(recv)]

\* the status a response must have for the method to go on
SuccessCode(op) ==
    IF op \in DeleteOps \union {"set_permissions"} THEN 204 ELSE 200

\* the one client error a method knows, as <<status, exception>>; none for delete
KnownError ==
    IF LookupStage \/ call.op \in LookupOps THEN <<400, "ObjectNotFoundException">>
    ELSE IF call.op = "login_with_credentials" THEN <<401, "ForbiddenAccessException">>
    ELSE IF call.op = "login_with_token" THEN <<404, "InvalidTokenException">>
    ELSE IF call.op \in ListFetchOps THEN <<400, "UserPermissionException">>
    ELSE IF call.op \in CreateOps \union UpdateOps \union {"set_permissions"}
    THEN <<400, "BadRequestException">>
    ELSE <<0, "none">>

ApiExceptions ==
    {"TraccarApiException", "BadRequestException", "ObjectNotFoundException",
     "ForbiddenAccessException", "InvalidTokenException", "UserPermissionException"}

\* C3: a response is dispatched three ways on its status: the success code
\* (200; 204 for delete and set_permissions) returns, the one client error the
\* method knows raises its own exception, and every other status raises
\* TraccarApiException with the response text as info.
C3_ThreeWayDispatch ==
    (pc = "done" /\ Len(recv) > 0) =>
        LET status == LastResponse.status_code
        IN  IF LookupStage /\ status = 200
            \* the lookup returned its list; no status made the update fail
            THEN result.kind = "raise" /\ result.exc \notin ApiExceptions
            ELSE IF status = SuccessCode(call.op) /\ ~LookupStage
            THEN result.kind = "return"
            ELSE IF status = KnownError[1]
            THEN result.kind = "raise" /\ result.exc = KnownError[2]
            ELSE /\ result.kind = "raise"
                 /\ result.exc = "TraccarApiException"
                 /\ result.kwargs = [info |-> LastResponse.text]

\* a list call answered 204 raises the generic error with the body
C3_Witness ==
    /\ Done("get_all_devices")
    /\ recv[1].status_code = 204
    /\ result.kind = "raise" /\ result.exc = "TraccarApiException"
    /\ result.kwargs.info = recv[1].text

(* ---------------- C4 ---------------- *)

\* the requests of an update: a GET filtered by id, then at most one PUT, sent
\* only after the GET was answered 200 with a record; a failed or empty lookup
\* raises and sends no PUT
UpdateTrace ==
    LET id == IF call.op = "update_device" THEN call.args.device_id
              ELSE call.args.geofence_id
    IN  /\ Len(sent) \in {1, 2}
        /\ sent[1].method = "GET" /\ sent[1].params = [id |-> id]
        /\ Len(sent) = 2 =>
              /\ sent[2].method = "PUT"
              /\ recv[1].status_code = 200
              /\ Len(JsonLoads(recv[1].text)) > 0
        /\ (recv[1].status_code # 200 \/ Len(JsonLoads(recv[1].text)) = 0) =>
              /\ Len(sent) = 1
              /\ result.kind = "raise"

\* set_permissions called with neither a device nor a group
NoTargetGiven ==
    /\ call.op = "set_permissions"
    /\ call.args.deviceId = "0" /\ call.args.groupId = "0"

\* C4 as stated: every call sends exactly one request, but for the updates,
\* which send a GET and then at most one PUT.
C4_OneRequestPerCall ==
    pc = "done" =>
        IF call.op \in UpdateOps THEN UpdateTrace ELSE Len(sent) = 1

\* C4, amended: every call sends exactly one request and never retries, except
\* set_permissions with deviceId = 0 and groupId = 0, which fails before any
\* request is sent, and the updates, which send a GET and then at most one PUT.
C4_OneRequestUnlessNoTarget ==
    pc = "done" =>
        IF call.op \in UpdateOps THEN UpdateTrace
        ELSE IF NoTargetGiven THEN Len(sent) = 0 /\ result.kind = "raise"
        ELSE Len(sent) = 1

\* an update whose lookup is answered 200 with an empty list: no PUT, an error
C4_Witness ==
    /\ Done("update_device")
    /\ recv[1].status_code = 200 /\ JsonLoads(recv[1].text) = <<>>
    /\ Len(sent) = 1 /\ sent[1].method = "GET"
    /\ result.kind = "raise" /\ result.exc = "IndexError"

(* ---------------- C5 ---------------- *)

\* C5: set_permissions with deviceId = 0 and groupId = 0 is rejected with a
\* validation error of the client's own before any request is sent; it does
\* not fail through an unbound local variable.
C5_NoTargetRejected ==
    (pc = "done" /\ NoTargetGiven) =>
        /\ Len(sent) = 0
        /\ result.kind = "raise"
        /\ result.exc # "UnboundLocalError"

(* ---------------- C6 ---------------- *)

\* C6: with a device or a group given, set_permissions POSTs exactly userId and
\* one target: deviceId when it is nonzero, groupId otherwise, never both; on
\* 204 the caller gets that same mapping back.
C6_PermissionPayload ==
    (pc = "done" /\ call.op = "set_permissions" /\ ~NoTargetGiven) =>
        /\ Len(sent) = 1
        /\ sent[1].method = "POST" /\ sent[1].url = urls.permissions
        /\ sent[1].json =
              IF call.args.deviceId # "0"
              THEN [userId |-> call.args.userId, deviceId |-> call.args.deviceId]
              ELSE [userId |-> call.args.userId, groupId |-> call.args.groupId]
        /\ Cardinality(DOMAIN sent[1].json) = 2
        /\ recv[1].status_code = 204 => result = Returns(sent[1].json)

\* a device and a group both given and the answer 204: the device alone is sent
C6_Witness ==
    /\ Done("set_permissions")
    /\ call.args.deviceId = "2" /\ call.args.groupId = "3"
    /\ recv[1].status_code = 204
    /\ DOMAIN sent[1].json = {"userId", "deviceId"}
    /\ result.kind = "return" /\ result.value = [userId |-> "1", deviceId |-> "2"]

(* ---------------- C7 ---------------- *)

\* C7: a delete sends one DELETE to resource/id, returns None exactly when the
\* status is 204, and raises TraccarApiException with the response text for
\* every other status, 200 and 400 included; it raises nothing else.
C7_DeleteDispatch ==
    (pc = "done" /\ call.op \in DeleteOps) =>
        /\ Len(sent) = 1 /\ sent[1].method = "DELETE"
        /\ sent[1].url =
              IF call.op = "delete_device"
              THEN BaseUrl \o "/api/devices/" \o PyStr(call.args.device_id)
              ELSE BaseUrl \o "/api/geofences/" \o PyStr(call.args.geofence_id)
        /\ IF recv[1].status_code = 204
           THEN result = Returns(PyNone)
           ELSE result = Raises("TraccarApiException", [info |-> recv[1].text])

\* a delete answered 200 raises the generic error
C7_Witness ==
    /\ Done("delete_geofence")
    /\ recv[1].status_code = 200
    /\ result.kind = "raise" /\ result.exc = "TraccarApiException"

(* ---------------- C8 ---------------- *)

\* a filter key is a name: None and the empty string name no field
FilterKeyGiven(query) == query \notin {PyNone, EmptyStr}

\* C8: get_devices (get_geofences) answered 400 raises ObjectNotFound with obj
\* the params value passed and obj_type 'Device' ('Geofence'); with a filter
\* key the request carries that one key with the params value, without one it
\* carries no query parameter at all, whatever params is.
C8_FilteredLookup ==
    (pc = "done" /\ call.op \in LookupOps) =>
        /\ Len(sent) = 1 /\ sent[1].method = "GET"
        /\ IF FilterKeyGiven(call.args.query)
           THEN /\ "params" \in DOMAIN sent[1]
                /\ DOMAIN sent[1].params = {PyStr(call.args.query)}
                /\ sent[1].params[PyStr(call.args.query)] = call.args.params
           ELSE "params" \notin DOMAIN sent[1]
        /\ recv[1].status_code = 400 =>
              result = Raises("ObjectNotFoundException",
                              [obj |-> call.args.params,
                               obj_type |-> IF call.op = "get_devices"
                                            THEN "'Device'" ELSE "'Geofence'"])

\* get_devices(query='id', params=5) answered 400
C8_Witness ==
    /\ Done("get_devices")
    /\ call.args.query = "'id'" /\ call.args.params = "5"
    /\ sent[1].params = [id |-> "5"]
    /\ recv[1].status_code = 400
    /\ result.exc = "ObjectNotFoundException"
    /\ result.kwargs.obj = "5" /\ result.kwargs.obj_type = "'Device'"

\* no filter key but a params value: nothing is sent as a query parameter
C8_WitnessUnfiltered ==
    /\ Done("get_geofences")
    /\ call.args.query = PyNone /\ call.args.params = "5"
    /\ "params" \notin DOMAIN sent[1]

(* ---------------- C9 ---------------- *)

\* C9 as stated: get_events sends the caller's event_type, or '%' when none is
\* given, and the caller's groupId, or '1' when none is given (get_trips sends
\* groupId the same way); from and to are startTime and endTime.
C9_DefaultsWhenNoneGiven ==
    (pc = "done" /\ call.op \in {"get_events", "get_trips"}) =>
        LET q == sent[1].params
        IN  /\ q.from = call.args.startTime /\ q.to = call.args.endTime
            /\ q.groupId = IF call.args.groupId # PyNone
                           THEN call.args.groupId ELSE "'1'"
            /\ call.op = "get_events" =>
                  q.type = IF call.args.event_type # PyNone
                           THEN call.args.event_type ELSE "'%'"

\* C9, amended: get_events sends the caller's event_type when it is given and
\* not empty and '%' otherwise, and the caller's groupId when it is given and
\* not zero (nor empty) and '1' otherwise (get_trips sends groupId the same
\* way); from and to are startTime and endTime unchanged.
C9_DefaultsWhenFalsy ==
    (pc = "done" /\ call.op \in {"get_events", "get_trips"}) =>
        LET q == sent[1].params
        IN  /\ Len(sent) = 1
            /\ q.from = call.args.startTime /\ q.to = call.args.endTime
            /\ q.groupId = IF call.args.groupId \in {PyNone, "0", EmptyStr}
                           THEN "'1'" ELSE call.args.groupId
            /\ call.op = "get_events" =>
                  q.type = IF call.args.event_type \in {PyNone, EmptyStr}
                           THEN "'%'" ELSE call.args.event_type

\* get_events with group 0 and an empty type: the defaults are sent
C9_Witness ==
    /\ Done("get_events")
    /\ call.args.groupId = "0" /\ call.args.event_type = EmptyStr
    /\ sent[1].params.groupId = "'1'" /\ sent[1].params.type = "'%'"
    /\ sent[1].params.from = call.args.startTime

(* ---------------- C10 ---------------- *)

\* the key of the body that carries a parameter of a create method
BodyKey(param) ==
    CASE param = "unique_id" -> "uniqueId"
      [] param = "group_id"  -> "groupId"
      [] OTHER               -> param

\* C10: a create POSTs a JSON body with id -1 and every parameter of the
\* method, required or optional, under its key with the caller's value; no
\* parameter is left out.
C10_CreateSendsEveryField ==
    (pc = "done" /\ call.op \in CreateOps) =>
        LET body == sent[1].json
        IN  /\ sent[1].method = "POST"
            /\ body.id = "-1"
            /\ \A param \in DOMAIN call.args :
                  /\ BodyKey(param) \in DOMAIN body
                  /\ PyStr(body[BodyKey(param)]) = PyStr(call.args[param])

(* ---------------- C11 ---------------- *)

\* the device a caller of a time-ranged fetch asked for
DeviceAsked ==
    IF call.op = "get_positions" THEN call.args.deviceId ELSE call.args.deviceid

\* C11: every time-ranged fetch sends the device the caller names: get_events
\* and get_trips put a given deviceid in the query as deviceId, as get_route
\* and get_positions do.
C11_DeviceFilterSent ==
    (pc = "done"
        /\ call.op \in {"get_events", "get_trips", "get_route", "get_positions"}
        /\ DeviceAsked # PyNone) =>
        /\ "deviceId" \in DOMAIN sent[1].params
        /\ sent[1].params.deviceId = DeviceAsked

====
